---- MODULE Spec2Model ----
(***************************************************************************)
(* Payout settlement of DexAdofm: POST /payout locks a worker's pending    *)
(* balance and enqueues a job, process_Queue pays the locked balance out   *)
(* on the ledger network with a key recovered from Shamir shares, and      *)
(* POST /submission credits the pending balance.                           *)
(***************************************************************************)
EXTENDS Integers, Sequences, FiniteSets, TLC

\* ------------------------------------------------------------------ bounds
NumWorkers == 1       \* worker rows in the table (ids 1..NumWorkers)
NumReqs == 2          \* POST /payout and GET /balance requests in one behaviour
NumProcs == 2         \* worker processes draining payoutQueue
MaxCredits == 2       \* POST /submission credits in one behaviour
MaxStalls == 1        \* times one job is handed out again after a restart
KeyLen == 2           \* length of a well-formed secret key (bytes)

\* ------------------------------------------------------- program constants
MIN_PENDING == 3000   \* part_000:154
THRESHOLD == 3        \* shares needed by recoverPrivateKey
SHARES == 5           \* shares made by createShares, one per endpoint
FieldP == 11          \* order of the field the shares live in

Workers == 1..NumWorkers
Absent == NumWorkers + 1          \* an id with no row in the worker table
WorkerIds == Workers \cup {Absent}
Reqs == 1..NumReqs
Procs == 1..NumProcs
CreditAmounts == {1000, 3000}     \* task.amount / TOTAL_SUBMISSIONS
NULL == [id |-> 0, pending_amount |-> 0, locked_amount |-> 0]   \* no row found
NoJob == [id |-> 0, workerId |-> 0, stalls |-> 0]
NoKey == ""                       \* PARENT_WALLET_PUBLIC_KEY left unset
NoError == "none"

\* ---------------------------------------------------------------- helpers
RECURSIVE SumSeq(_)
SumSeq(s) == IF s = <<>> THEN 0 ELSE Head(s) + SumSeq(Tail(s))

\* ----------------------------------------- Uint8Array.toString / split / Number
DigitChar == <<"0", "1", "2", "3", "4", "5", "6", "7", "8", "9">>

RECURSIVE NumberToString(_)
NumberToString(n) ==
    IF n < 10 THEN <<DigitChar[n + 1]>>
    ELSE NumberToString(n \div 10) \o <<DigitChar[(n % 10) + 1]>>

\* new Uint8Array(share).toString(): the bytes in decimal, joined by ","
RECURSIVE Uint8ArrayToString(_)
Uint8ArrayToString(bytes) ==
    IF bytes = <<>> THEN <<>>
    ELSE IF Len(bytes) = 1 THEN NumberToString(bytes[1])
    ELSE NumberToString(Head(bytes)) \o <<",">> \o Uint8ArrayToString(Tail(bytes))

\* share.split(","): the pieces between the commas
RECURSIVE SplitAcc(_, _, _)
SplitAcc(str, cur, acc) ==
    IF str = <<>> THEN Append(acc, cur)
    ELSE IF Head(str) = "," THEN SplitAcc(Tail(str), <<>>, Append(acc, cur))
    ELSE SplitAcc(Tail(str), Append(cur, Head(str)), acc)

Split(str) == SplitAcc(str, <<>>, <<>>)

\* Number(piece): the decimal value of a digit string (Number("") is 0)
RECURSIVE NumberAcc(_, _)
NumberAcc(str, acc) ==
    IF str = <<>> THEN acc
    ELSE NumberAcc(Tail(str),
                   10 * acc + ((CHOOSE d \in 1..10 : DigitChar[d] = Head(str)) - 1))

Number(str) == NumberAcc(str, 0)

\* share.split(",").map(Number)
ParseShare(str) == [i \in 1..Len(Split(str)) |-> Number(Split(str)[i])]

\* ------------------------------------------------ shamirs-secret-sharing
\* A share is <<x, y_1, ..., y_L>>: the point index and, per secret byte,
\* the value at x of that byte's polynomial of degree THRESHOLD - 1.
RECURSIVE Horner(_, _)
Horner(coefs, x) ==
    IF coefs = <<>> THEN 0
    ELSE (Head(coefs) + x * Horner(Tail(coefs), x)) % FieldP

Inverse(a) == CHOOSE b \in 1..(FieldP - 1) : (a * b) % FieldP = 1

\* sss.split(secret, {shares, threshold}); rnd[i] holds the random
\* coefficients of byte i's polynomial
Split_sss(secret, rnd, shares) ==
    [x \in 1..shares |->
        <<x>> \o [i \in 1..Len(secret) |-> Horner(<<secret[i]>> \o rnd[i], x)]]

\* Lagrange basis value at 0 of point j among the points xs
RECURSIVE LagrangeAt0(_, _, _)
LagrangeAt0(xs, j, m) ==
    IF m > Len(xs) THEN 1
    ELSE IF m = j THEN LagrangeAt0(xs, j, m + 1)
    ELSE (xs[m] * Inverse((xs[m] - xs[j] + FieldP) % FieldP)
            * LagrangeAt0(xs, j, m + 1)) % FieldP

RECURSIVE CombineByte(_, _, _)
CombineByte(sharesArray, i, j) ==
    IF j > Len(sharesArray) THEN 0
    ELSE (sharesArray[j][i + 1]
            * LagrangeAt0([k \in 1..Len(sharesArray) |-> sharesArray[k][1]], j, 1)
          + CombineByte(sharesArray, i, j + 1)) % FieldP

\* sss.combine(shares): interpolates every byte through all the shares given
Combine_sss(sharesArray) ==
    [i \in 1..(Len(sharesArray[1]) - 1) |-> CombineByte(sharesArray, i, 1)]

\* ------------------------------------- Buffer.from / toString / bs58 decode
\* The characters a key string is made of, by character code; "0" and "l"
\* are not base58 digits.
CharTable == <<"0", "1", "2", "3", "4", "5", "6", "7", "8", "9", "l">>
Base58Alphabet == <<"1", "2", "3", "4", "5", "6", "7", "8", "9">>

CharCode(c) == (CHOOSE i \in 1..Len(CharTable) : CharTable[i] = c) - 1

\* Buffer.from(privateKey): the character codes of the string
BufferFrom(str) == [i \in 1..Len(str) |-> CharCode(str[i])]

\* recovered.toString(): the characters of the codes
BufferToString(buf) == [i \in 1..Len(buf) |-> CharTable[buf[i] + 1]]

IsBase58(str) ==
    \A i \in 1..Len(str) : \E d \in 1..Len(Base58Alphabet) : Base58Alphabet[d] = str[i]

\* decode(str): the digit values; defined for base58 strings only
Base58Decode(str) ==
    [i \in 1..Len(str) |->
        (CHOOSE d \in 1..Len(Base58Alphabet) : Base58Alphabet[d] = str[i]) - 1]

\* The public half that belongs to a seed (Keypair.fromSecretKey checks it).
DerivePublic(seed) == (2 * SumSeq(seed) + 1) % Len(Base58Alphabet)

\* Keypair.fromSecretKey(bytes) accepts KeyLen bytes, seed then public half
ValidSecretKey(bytes) ==
    /\ Len(bytes) = KeyLen
    /\ bytes[KeyLen] = DerivePublic(SubSeq(bytes, 1, KeyLen - 1))

\* -------------------------------------------------------- createShares.ts
\* createShares(privateKey): the SHARE="..." values written to the .env
\* file, in share order; rnd are the coefficients sss.split draws.
createShares(privateKey, rnd) ==
    LET secret == BufferFrom(privateKey)
        shares == Split_sss(secret, rnd, SHARES)
    IN  [n \in 1..SHARES |-> Uint8ArrayToString(shares[n])]

\* --------------------------------------------------- recoverPrivateKey.ts
MinimumThreshold == "Minimum threshold required"
CouldNotRecover == "Could not recover the private key, send a valid uint8 array"

\* recoverPrivateKey.ts:19-36 with the share count it insists on
RecoverWithMinimum(sharesArray, minimum) ==
    IF Len(sharesArray) < minimum
    THEN [ok |-> FALSE, error |-> MinimumThreshold, keypair |-> <<>>]
    ELSE LET recovered == Combine_sss(sharesArray)
             str == BufferToString(recovered)
         IN  IF IsBase58(str) /\ ValidSecretKey(Base58Decode(str))
             THEN [ok |-> TRUE, error |-> NoError, keypair |-> Base58Decode(str)]
             ELSE [ok |-> FALSE, error |-> CouldNotRecover, keypair |-> <<>>]

\* faulty variant: the check lets THRESHOLD - 1 shares through
recoverPrivateKeyOneShort(sharesArray) ==
    RecoverWithMinimum(sharesArray, THRESHOLD - 1)

\* faulty variant: the check compares with <= and turns THRESHOLD shares away
recoverPrivateKeyOffByOne(sharesArray) ==
    RecoverWithMinimum(sharesArray, THRESHOLD + 1)

recoverPrivateKey(sharesArray) ==
    RecoverWithMinimum(sharesArray, THRESHOLD)

\* faulty variant: the first answer that failed ends the fetch
RECURSIVE fetchSharesUntilFailure(_, _, _)
fetchSharesUntilFailure(resp, order, acc) ==
    IF order = <<>> THEN acc
    ELSE LET r == resp[Head(order)]
         IN  IF ~r.ok THEN acc
             ELSE fetchSharesUntilFailure(resp, Tail(order),
                     IF r.share # <<>>
                     THEN Append(acc, ParseShare(r.share))
                     ELSE acc)

\* fetchShares(): resp[e] is endpoint e's answer ([ok, share]); order is the
\* order in which the answers arrive.  An answer that failed or carries no
\* share is skipped, the others are parsed and pushed as they arrive.
RECURSIVE fetchSharesFrom(_, _, _)
fetchSharesFrom(resp, order, acc) ==
    IF order = <<>> THEN acc
    ELSE LET r == resp[Head(order)]
         IN  fetchSharesFrom(resp, Tail(order),
                 IF r.ok /\ r.share # <<>>
                 THEN Append(acc, ParseShare(r.share))
                 ELSE acc)

fetchShares(resp, order) == fetchSharesFrom(resp, order, <<>>)

\* ------------------------------------------------------------ custody key
\* The key whose shares the endpoints serve, and the coefficients it was
\* split with.
CustodySeed == [i \in 1..(KeyLen - 1) |-> "7"]
CustodyKey ==
    Append(CustodySeed, Base58Alphabet[DerivePublic(Base58Decode(CustodySeed)) + 1])
CustodyRnd == [i \in 1..KeyLen |-> [j \in 1..(THRESHOLD - 1) |-> (3 * i + 7 * j) % FieldP]]
CustodyKeypair == Base58Decode(CustodyKey)
EndpointShare == createShares(CustodyKey, CustodyRnd)

\* a fragment that does not belong to the custody key's share set
MismatchedShare(e) ==
    LET bytes == ParseShare(EndpointShare[e])
    IN  Uint8ArrayToString([bytes EXCEPT ![2] = (bytes[2] + 1) % FieldP])

\* ------------------------------------------------------------------ state
VARIABLES
    worker,        \* Worker table: id -> [pending_amount, locked_amount]
    payouts,       \* Payouts table, in creation order
    submissions,   \* Submission table: [count, amount per worker id]
    payoutQueue,   \* jobs waiting in the Bull queue
    jobSeq,        \* job ids handed out by payoutQueue.add
    req,           \* POST /payout requests
    proc,          \* worker processes running process_Queue
    chain,         \* transfers the ledger network accepted
    config,        \* [PARENT_WALLET_PUBLIC_KEY]
    sss            \* createShares / recoverPrivateKey run on their own

vars == <<worker, payouts, submissions, payoutQueue, jobSeq, req, proc, chain,
          config, sss>>

ledgerVars == <<worker, payouts, submissions, payoutQueue, jobSeq, req, proc,
                chain, config>>

NoBody == <<>>                    \* no balance sent
Undefined == "undefined"          \* worker?.pending_amount of no row

ReqIdle == [pc |-> "idle", workerId |-> 0, worker |-> NULL, stale |-> FALSE,
            moved |-> 0, job |-> 0, status |-> 0, error |-> NoError,
            body |-> NoBody]

ProcIdle == [pc |-> "idle", job |-> NoJob, worker |-> NULL, fetches |-> 0,
             nshares |-> 0, keypair |-> <<>>, sends |-> 0, error |-> NoError,
             signature |-> 0]

SssOff == [phase |-> "off", privateKey |-> <<>>, env |-> <<>>,
           responses |-> <<>>, sharesArray |-> <<>>,
           out |-> [ok |-> FALSE, error |-> NoError, keypair |-> <<>>]]

InitLedger ==
    /\ worker = [w \in Workers |-> [id |-> w, pending_amount |-> 0, locked_amount |-> 0]]
    /\ payouts = <<>>
    /\ submissions = [count |-> 0, amount |-> [w \in Workers |-> 0]]
    /\ payoutQueue = <<>>
    /\ jobSeq = 0
    /\ req = [r \in Reqs |-> ReqIdle]
    /\ proc = [p \in Procs |-> ProcIdle]
    /\ chain = <<>>

Init ==
    /\ InitLedger
    /\ config \in {[PARENT_WALLET_PUBLIC_KEY |-> k] : k \in {"set", NoKey}}
    /\ sss = SssOff

\* A committed write to worker row w makes every open Serializable
\* transaction that read the row fail at its own write.
MarkStale(rq, w, self) ==
    [r \in Reqs |->
        IF r # self /\ rq[r].pc = "read" /\ rq[r].workerId = w
        THEN [rq[r] EXCEPT !.stale = TRUE]
        ELSE rq[r]]

\* ------------------------------------------------- POST /submission (credit)
\* part_000:239-261: one Submission row and pending_amount += amount
Submission(w, amount) ==
    /\ submissions.count < MaxCredits
    /\ submissions' = [count |-> submissions.count + 1,
                       amount |-> [submissions.amount EXCEPT ![w] = @ + amount]]
    /\ worker' = [worker EXCEPT ![w].pending_amount = @ + amount]
    /\ req' = MarkStale(req, w, 0)
    /\ UNCHANGED <<payouts, payoutQueue, jobSeq, proc, chain, config, sss>>

\* ------------------------------------------------------------ POST /payout
\* part_000:148-150: the transaction starts and reads the worker row
LockFindUnique(r, w) ==
    /\ req[r].pc = "idle"
    /\ req' = [req EXCEPT ![r] = [@ EXCEPT !.pc = "read", !.workerId = w,
                    !.worker = IF w \in Workers THEN worker[w] ELSE NULL]]
    /\ UNCHANGED <<worker, payouts, submissions, payoutQueue, jobSeq, proc, chain,
                   config, sss>>

\* part_000:151-158: the error the checks throw, if any
WorkerNotFound == "Worker not found"
InsufficientBalance == "Your need to have atleast 0.03 sol as pending amount to withdraw."
SerializationFailure == "could not serialize access due to concurrent update"
QueueError == "queue add failed"

LockCheck(w) ==
    IF w = NULL THEN WorkerNotFound
    ELSE IF w.pending_amount < MIN_PENDING THEN InsufficientBalance
    ELSE NoError

\* part_000:151-158 and 183-185: a check throws, the transaction rolls
\* back and the caller gets 500
LockReject(r) ==
    /\ req[r].pc = "read"
    /\ LockCheck(req[r].worker) # NoError
    /\ req' = [req EXCEPT ![r] = [@ EXCEPT !.pc = "done", !.worker = NULL, !.status = 500,
                    !.error = LockCheck(req[r].worker)]]
    /\ UNCHANGED <<worker, payouts, submissions, payoutQueue, jobSeq, proc, chain,
                   config, sss>>

\* faulty variant: the transaction runs without Serializable isolation
SerializationConflictOff(rq) == FALSE

\* part_000:176: under Serializable the write fails when the row was
\* written by a transaction that committed after this one read it
SerializationConflict(rq) == rq.stale

\* faulty variant: the update forgets to credit locked_amount
LockWriteHalf(row, amount) ==
    [row EXCEPT !.pending_amount = @ - amount]

\* faulty variant: the update writes locked_amount instead of incrementing it
LockWriteSet(row, amount) ==
    [row EXCEPT !.pending_amount = @ - amount, !.locked_amount = amount]

\* part_000:159-172: the row after the update by amount
LockWrite(row, amount) ==
    [row EXCEPT !.pending_amount = @ - amount, !.locked_amount = @ + amount]

\* part_000:160-178: the update and the commit
LockUpdate(r) ==
    LET w == req[r].workerId
        amount == req[r].worker.pending_amount
    IN  /\ req[r].pc = "read"
        /\ LockCheck(req[r].worker) = NoError
        /\ ~SerializationConflict(req[r])
        /\ worker' = [worker EXCEPT ![w] = LockWrite(worker[w], amount)]
        /\ req' = [MarkStale(req, w, r) EXCEPT ![r] =
                      [@ EXCEPT !.pc = "locked", !.worker = NULL, !.moved = amount]]
        /\ UNCHANGED <<payouts, submissions, payoutQueue, jobSeq, proc, chain,
                       config, sss>>

\* part_000:160-185: the update fails to serialize, the caller gets 500
LockConflict(r) ==
    /\ req[r].pc = "read"
    /\ LockCheck(req[r].worker) = NoError
    /\ SerializationConflict(req[r])
    /\ req' = [req EXCEPT ![r] = [@ EXCEPT !.pc = "done", !.worker = NULL, !.status = 500,
                    !.error = SerializationFailure]]
    /\ UNCHANGED <<worker, payouts, submissions, payoutQueue, jobSeq, proc, chain,
                   config, sss>>

\* part_000:179-182: the job is added and the caller gets 200
QueueAdd(r) ==
    /\ req[r].pc = "locked"
    /\ jobSeq' = jobSeq + 1
    /\ payoutQueue' = Append(payoutQueue,
            [id |-> jobSeq + 1, workerId |-> req[r].workerId, stalls |-> 0])
    /\ req' = [req EXCEPT ![r] = [@ EXCEPT !.pc = "done", !.worker = NULL, !.status = 200,
                    !.job = jobSeq + 1]]
    /\ UNCHANGED <<worker, payouts, submissions, proc, chain, config, sss>>

\* part_000:179 and 183-185: payoutQueue.add rejects (Redis is not
\* reachable), the catch answers 500
QueueAddFail(r) ==
    /\ req[r].pc = "locked"
    /\ req' = [req EXCEPT ![r] = [@ EXCEPT !.pc = "done", !.worker = NULL, !.status = 500,
                    !.error = QueueError]]
    /\ UNCHANGED <<worker, payouts, submissions, payoutQueue, jobSeq, proc, chain,
                   config, sss>>

Payout(r) ==
    \/ \E w \in WorkerIds : LockFindUnique(r, w)
    \/ LockReject(r)
    \/ LockUpdate(r)
    \/ LockConflict(r)
    \/ QueueAdd(r)
    \/ QueueAddFail(r)

\* ----------------------------------------------------------- process_Queue
TOTAL_DECIMALS == 100000

\* part_000:58: lamports of the transfer, (1000_000_000 * locked_amount) /
\* TOTAL_DECIMALS, computed without leaving the 32-bit range
Lamports(locked_amount) == (1000000000 \div TOTAL_DECIMALS) * locked_amount

JobWorkerNotFound == "Worker Not Found"
SetParentKey == "Set parent public key"
TransferError == "invalid transfer instruction"
SubmissionError == "failed to send transaction"

\* part_000:27-40: a free process takes the oldest waiting job, opens the
\* transaction and reads the worker row
JobStart(p) ==
    /\ proc[p].pc = "idle"
    /\ payoutQueue # <<>>
    /\ LET job == Head(payoutQueue)
       IN  proc' = [proc EXCEPT ![p] = [ProcIdle EXCEPT !.pc = "try", !.job = job,
                        !.worker = IF job.workerId \in Workers
                                   THEN worker[job.workerId] ELSE NULL]]
    /\ payoutQueue' = Tail(payoutQueue)
    /\ UNCHANGED <<worker, payouts, submissions, jobSeq, req, chain, config, sss>>

\* faulty variant: the catch does not return and the update runs after an error
SettleWriteNoReturn(row, amount, error) ==
    [row EXCEPT !.locked_amount = @ - amount]

\* faulty variant: the update clears locked_amount instead of decrementing it
\* by the amount read at the start
SettleWriteAll(row, amount, error) ==
    IF error # NoError THEN row
    ELSE [row EXCEPT !.locked_amount = 0]

\* part_000:76-86: what the transaction writes to the worker's row: the
\* catch returns before the update, otherwise locked_amount is decremented
\* by the locked_amount read at the start
SettleWrite(row, amount, error) ==
    IF error # NoError THEN row
    ELSE [row EXCEPT !.locked_amount = @ - amount]

\* part_000:46-60: the error thrown before the shares are fetched, if any
JobCheck(w, cfg) ==
    IF w = NULL THEN JobWorkerNotFound
    ELSE IF cfg.PARENT_WALLET_PUBLIC_KEY = NoKey THEN SetParentKey
    ELSE IF Lamports(w.locked_amount) < 0 THEN TransferError
    ELSE NoError

\* part_000:46-60 and 76-80: a check throws, the catch logs and returns
JobReject(p) ==
    /\ proc[p].pc = "try"
    /\ JobCheck(proc[p].worker, config) # NoError
    /\ proc' = [proc EXCEPT ![p] = [@ EXCEPT !.pc = "returned", !.worker = NULL,
                    !.error = JobCheck(proc[p].worker, config)]]
    /\ worker' = [worker EXCEPT ![proc[p].job.workerId] =
                    SettleWrite(@, proc[p].worker.locked_amount,
                                JobCheck(proc[p].worker, config))]
    /\ UNCHANGED <<payouts, submissions, payoutQueue, jobSeq, req, chain, config,
                   sss>>

\* The endpoint failures tried: <<answered, bad>> with the first k
\* endpoints answering, and among them possibly one bad endpoint.
FetchCases ==
    {<<1..k, 0>> : k \in {0, 1, THRESHOLD - 1, THRESHOLD, SHARES}}
        \cup {<<1..THRESHOLD, THRESHOLD>>}

\* What the endpoints answer: those in answered send their share, the
\* endpoint bad (if any) sends a fragment of another share set, the rest fail.
Responses(answered, bad) ==
    [e \in 1..SHARES |->
        IF e = bad THEN [ok |-> TRUE, share |-> MismatchedShare(e)]
        ELSE IF e \in answered THEN [ok |-> TRUE, share |-> EndpointShare[e]]
        ELSE [ok |-> FALSE, share |-> <<>>]]

\* part_000:63: fetchShares() settles and recoverPrivateKey runs on what
\* it collected; on an error the catch (76-80) logs and returns
JobRecover(p) ==
    /\ proc[p].pc = "try"
    /\ JobCheck(proc[p].worker, config) = NoError
    /\ \E c \in FetchCases :
         LET sharesArray == fetchShares(Responses(c[1], c[2]),
                                        [e \in 1..SHARES |-> e])
             rec == recoverPrivateKey(sharesArray)
         IN  /\ proc' = [proc EXCEPT ![p] = [@ EXCEPT
                        !.pc = IF rec.ok THEN "send" ELSE "returned",
                        !.worker = IF rec.ok THEN @ ELSE NULL,
                        !.fetches = @ + 1,
                        !.nshares = Len(sharesArray),
                        !.keypair = rec.keypair,
                        !.error = rec.error]]
             /\ worker' = IF rec.ok THEN worker
                          ELSE [worker EXCEPT ![proc[p].job.workerId] =
                                   SettleWrite(@, proc[p].worker.locked_amount,
                                               rec.error)]
    /\ UNCHANGED <<payouts, submissions, payoutQueue, jobSeq, req, chain, config,
                   sss>>

\* part_000:66-75: the network accepts the transfer signed by the custody
\* key and returns its signature
JobSend(p) ==
    /\ proc[p].pc = "send"
    /\ proc[p].keypair = CustodyKeypair
    /\ LET sig == Len(chain) + 1
           lamports == Lamports(proc[p].worker.locked_amount)
       IN  /\ chain' = Append(chain, [to |-> proc[p].job.workerId,
                                      lamports |-> lamports,
                                      signature |-> sig,
                                      job |-> proc[p].job.id])
           /\ proc' = [proc EXCEPT ![p] = [@ EXCEPT !.pc = "finalize",
                            !.sends = @ + 1, !.signature = sig, !.keypair = <<>>]]
    /\ UNCHANGED <<worker, payouts, submissions, payoutQueue, jobSeq, req, config,
                   sss>>

\* faulty variant: after a failed submission the pipeline is run again
JobSendFailRetry(p) ==
    /\ proc[p].pc = "send"
    /\ proc' = [proc EXCEPT ![p] = [@ EXCEPT !.pc = "try", !.keypair = <<>>,
                    !.error = SubmissionError]]
    /\ UNCHANGED <<worker, payouts, submissions, payoutQueue, jobSeq, req, chain,
                   config, sss>>

\* part_000:66-69 and 76-80: sendTransaction throws (wrong signer, network
\* failure), the catch logs and returns
JobSendFail(p) ==
    /\ proc[p].pc = "send"
    /\ proc' = [proc EXCEPT ![p] = [@ EXCEPT !.pc = "returned", !.worker = NULL,
                    !.keypair = <<>>, !.error = SubmissionError]]
    /\ worker' = [worker EXCEPT ![proc[p].job.workerId] =
                    SettleWrite(@, proc[p].worker.locked_amount, SubmissionError)]
    /\ UNCHANGED <<payouts, submissions, payoutQueue, jobSeq, req, chain, config,
                   sss>>

\* faulty variant: the row records the lamports sent instead of the amount
\* taken from locked_amount
PayoutRowLamports(workerId, amount, signature) ==
    [worker_id |-> workerId, amount |-> Lamports(amount), status |-> "Success",
     signature |-> signature]

\* part_000:89-96: the Payouts row
PayoutRow(workerId, amount, signature) ==
    [worker_id |-> workerId, amount |-> amount, status |-> "Success",
     signature |-> signature]

\* part_000:83-101: both writes and the commit
JobFinalize(p) ==
    LET w == proc[p].job.workerId
        amount == proc[p].worker.locked_amount
    IN  /\ proc[p].pc = "finalize"
        /\ worker' = [worker EXCEPT ![w] = SettleWrite(worker[w], amount, NoError)]
        /\ payouts' = Append(payouts, PayoutRow(w, amount, proc[p].signature))
        /\ req' = MarkStale(req, w, 0)
        /\ proc' = [proc EXCEPT ![p] = [@ EXCEPT !.pc = "returned", !.worker = NULL]]
        /\ UNCHANGED <<submissions, payoutQueue, jobSeq, chain, config, sss>>

\* part_000:83-101: a write or the commit fails (the transaction timed
\* out, the database is away): the transaction rolls back and the promise
\* of process_Queue rejects
JobFinalizeFail(p) ==
    /\ proc[p].pc = "finalize"
    /\ proc' = [proc EXCEPT ![p] = [@ EXCEPT !.pc = "rejected", !.worker = NULL]]
    /\ UNCHANGED <<worker, payouts, submissions, payoutQueue, jobSeq, req, chain,
                   config, sss>>

\* part_000:27 and 134: done is never called, so the job stays active until
\* the process holding it is restarted; the queue then hands a stalled job
\* out again, at most MaxStalls times.  An open transaction rolls back.
Restart(p) ==
    /\ proc[p].pc # "idle"
    /\ payoutQueue' =
         IF proc[p].job.stalls < MaxStalls
         THEN Append(payoutQueue, [proc[p].job EXCEPT !.stalls = @ + 1])
         ELSE payoutQueue
    /\ proc' = [proc EXCEPT ![p] = ProcIdle]
    /\ UNCHANGED <<worker, payouts, submissions, jobSeq, req, chain, config, sss>>

ProcessQueue(p) ==
    \/ JobStart(p)
    \/ JobReject(p)
    \/ JobRecover(p)
    \/ JobSend(p)
    \/ JobSendFail(p)
    \/ JobFinalize(p)
    \/ JobFinalizeFail(p)
    \/ Restart(p)

Next ==
    \/ \E w \in Workers, amount \in CreditAmounts : Submission(w, amount)
    \/ \E r \in Reqs : Payout(r)
    \/ \E p \in Procs : ProcessQueue(p)

Spec == Init /\ [][Next]_vars

\* ------------------------------------------- lock attempts on their own
\* Workers that start with a pending balance (credited before), and
\* POST /payout requests only.
StartPending == {1000, 2999, 3000, 5000}

InitLock ==
    /\ \E start \in [Workers -> StartPending] :
         /\ worker = [w \in Workers |->
                        [id |-> w, pending_amount |-> start[w], locked_amount |-> 0]]
         /\ submissions = [count |-> 0, amount |-> start]
    /\ payouts = <<>>
    /\ payoutQueue = <<>>
    /\ jobSeq = 0
    /\ req = [r \in Reqs |-> ReqIdle]
    /\ proc = [p \in Procs |-> ProcIdle]
    /\ chain = <<>>
    /\ config = [PARENT_WALLET_PUBLIC_KEY |-> "set"]
    /\ sss = SssOff

NextLock == \E r \in Reqs : Payout(r)

SpecLock == InitLock /\ [][NextLock]_vars

\* ------------------------------------------------------- GET /balance
\* part_000:213-216: the body sent for the row that findFirst returned
BalanceBody(row) ==
    IF row = NULL
    THEN [pendingAmount |-> Undefined, lockedAmount |-> Undefined]
    ELSE [pendingAmount |-> row.pending_amount,
          lockedAmount |-> row.pending_amount]

\* part_000:204-217: one read of the worker's row, then the answer
Balance(r, w) ==
    /\ req[r].pc = "idle"
    /\ LET row == IF w \in Workers THEN worker[w] ELSE NULL
       IN  req' = [req EXCEPT ![r] = [@ EXCEPT !.pc = "balance", !.workerId = w,
                        !.worker = row, !.status = 200,
                        !.body = BalanceBody(row)]]
    /\ UNCHANGED <<worker, payouts, submissions, payoutQueue, jobSeq, proc, chain,
                   config, sss>>

\* Credits, lock requests and balance reads, without the settlement jobs.
InitBalance ==
    /\ InitLedger
    /\ config = [PARENT_WALLET_PUBLIC_KEY |-> "set"]
    /\ sss = SssOff

NextBalance ==
    \/ \E w \in Workers, amount \in CreditAmounts : Submission(w, amount)
    \/ \E r \in Reqs : Payout(r)
    \/ \E r \in Reqs, w \in WorkerIds : Balance(r, w)

SpecBalance == InitBalance /\ [][NextBalance]_vars

\* ------------------------------- createShares and recoverPrivateKey alone
SeedChars == {"1", "7", "9"}
Coefficients == {0, 10}

\* key strings: every seed with its public half, and with a wrong one
PrivateKeys ==
    {Append(seed, Base58Alphabet[((DerivePublic(Base58Decode(seed)) + d)
                                    % Len(Base58Alphabet)) + 1]) :
        seed \in [1..(KeyLen - 1) -> SeedChars], d \in {0, 1}}

ValidPrivateKey(str) == IsBase58(str) /\ ValidSecretKey(Base58Decode(str))

\* the orders in which distinct shares of the .env file can be handed in
Selections ==
    {sel \in UNION {[1..n -> 1..SHARES] : n \in 0..SHARES} :
        \A i, j \in DOMAIN sel : i # j => sel[i] # sel[j]}

InitSSS ==
    /\ InitLedger
    /\ config = [PARENT_WALLET_PUBLIC_KEY |-> "set"]
    /\ sss \in {[SssOff EXCEPT !.phase = "key", !.privateKey = k] : k \in PrivateKeys}

\* createShares.ts:16-33
CreateShares ==
    /\ sss.phase = "key"
    /\ \E rnd \in [1..KeyLen -> [1..(THRESHOLD - 1) -> Coefficients]] :
         sss' = [sss EXCEPT !.phase = "shared",
                            !.env = createShares(sss.privateKey, rnd)]
    /\ UNCHANGED ledgerVars

\* recoverPrivateKey.ts:19-36 on shares read back as fetchShares reads them
RecoverPrivateKey ==
    /\ sss.phase = "shared"
    /\ \E sel \in Selections :
         LET sharesArray == [i \in DOMAIN sel |-> ParseShare(sss.env[sel[i]])]
         IN  sss' = [sss EXCEPT !.phase = "recovered",
                                !.sharesArray = sharesArray,
                                !.out = recoverPrivateKey(sharesArray)]
    /\ UNCHANGED ledgerVars

NextSSS == CreateShares \/ RecoverPrivateKey

SpecSSS == InitSSS /\ [][NextSSS]_vars

\* ------------------------------------------------------ fetchShares alone
\* what endpoint e may answer: no answer, an answer without a share, its
\* share
EndpointAnswers(e) ==
    {[ok |-> FALSE, share |-> <<>>], [ok |-> TRUE, share |-> <<>>],
     [ok |-> TRUE, share |-> EndpointShare[e]]}

\* the orders in which the answers of the endpoints can arrive
ArrivalOrders == {sel \in Selections : Len(sel) = SHARES}

InitFetch ==
    /\ InitLedger
    /\ config = [PARENT_WALLET_PUBLIC_KEY |-> "set"]
    /\ \E resp \in [1..SHARES -> UNION {EndpointAnswers(e) : e \in 1..SHARES}] :
         /\ \A e \in 1..SHARES : resp[e] \in EndpointAnswers(e)
         /\ sss = [SssOff EXCEPT !.phase = "endpoints", !.responses = resp]

\* recoverPrivateKey.ts:42-62: the requests settle in some order and
\* Promise.all resolves with what was pushed
FetchShares ==
    /\ sss.phase = "endpoints"
    /\ \E order \in ArrivalOrders :
         sss' = [sss EXCEPT !.phase = "fetched",
                            !.sharesArray = fetchShares(sss.responses, order)]
    /\ UNCHANGED ledgerVars

NextFetch == FetchShares

SpecFetch == InitFetch /\ [][NextFetch]_vars

\* =============================================================== properties
Attempts(w) == {r \in Reqs : req[r].pc # "idle" /\ req[r].workerId = w}
Winners(w) == {r \in Attempts(w) : req[r].moved # 0}
Finished(r) == req[r].pc \in {"locked", "done"}

RECURSIVE SumMoved(_)
SumMoved(rs) ==
    IF rs = {} THEN 0
    ELSE LET r == CHOOSE x \in rs : TRUE IN req[r].moved + SumMoved(rs \ {r})

\* the job whose transfer carried this signature
JobOfSignature(sig) == chain[sig].job

\* C1: in every reachable state every worker has pending_amount >= 0 and
\* locked_amount >= 0.
C1_NonNegativeBalances ==
    \A w \in Workers :
        worker[w].pending_amount >= 0 /\ worker[w].locked_amount >= 0

\* C2: of the concurrent lock attempts on one worker whose pending balance
\* is P (at least the minimum), at most one ever commits, the one that does
\* moves exactly P from pending to locked, the attempts together never move
\* more than P, and once all have finished exactly one has committed and
\* every other one was answered with a failure.
C2_LockExclusive ==
    \A w \in Workers :
        LET P == submissions.amount[w]
        IN  /\ Cardinality(Winners(w)) <= 1
            /\ SumMoved(Attempts(w)) <= P
            /\ \A r \in Winners(w) :
                 /\ req[r].moved = P
                 /\ worker[w].pending_amount = 0
                 /\ worker[w].locked_amount = P
            /\ (/\ P >= MIN_PENDING
                /\ Attempts(w) # {}
                /\ \A r \in Attempts(w) : Finished(r))
               => /\ Cardinality(Winners(w)) = 1
                  /\ \A r \in Attempts(w) \ Winners(w) :
                       req[r].pc = "done" /\ req[r].status = 500

\* C2 witness: two attempts on one worker ran concurrently, one committed
\* and the other failed to serialize.
C2_Witness ==
    \E w \in Workers : \E r1, r2 \in Attempts(w) :
        /\ req[r1].moved = 5000
        /\ req[r2].pc = "done"
        /\ req[r2].error = SerializationFailure

\* C3: a lock of a worker whose pending balance P is at least 3000 sets
\* pending_amount to 0 and adds exactly P to locked_amount in one step, and
\* no step lowers pending_amount or raises locked_amount in any other way.
C3_LockAtomic ==
    [][\A w \in Workers :
         /\ (\E r \in Reqs : req[r].workerId = w /\ req[r].pc = "read"
                             /\ req'[r].pc = "locked")
            => /\ worker[w].pending_amount >= MIN_PENDING
               /\ worker'[w].pending_amount = 0
               /\ worker'[w].locked_amount =
                      worker[w].locked_amount + worker[w].pending_amount
         /\ (\/ worker'[w].pending_amount < worker[w].pending_amount
             \/ worker'[w].locked_amount > worker[w].locked_amount)
            => /\ worker[w].pending_amount >= MIN_PENDING
               /\ worker'[w].pending_amount = 0
               /\ worker'[w].locked_amount =
                      worker[w].locked_amount + worker[w].pending_amount]_vars

\* C3 witness: a lock moved a pending balance of 4000 to a locked balance
\* that was 0.
C3_Witness ==
    \E r \in Reqs :
        /\ req[r].pc = "locked"
        /\ req[r].moved = 4000
        /\ worker[req[r].workerId].pending_amount = 0
        /\ worker[req[r].workerId].locked_amount = 4000

\* C4: a lock request fails exactly when the worker does not exist or its
\* pending balance is below 3000, and a failed request has moved nothing
\* and enqueued no job.
C4_LockFailsOnlyOnChecks ==
    \A r \in Reqs :
        req[r].pc = "done" =>
            /\ req[r].status # 200
                 <=> req[r].error \in {WorkerNotFound, InsufficientBalance}
            /\ req[r].status # 200 => req[r].moved = 0 /\ req[r].job = 0

\* C5: a request whose lock committed has enqueued one job for the worker
\* and was answered with success.
C5_LockedThenEnqueued ==
    \A r \in Reqs :
        (req[r].pc = "done" /\ req[r].moved # 0) =>
            /\ req[r].status = 200
            /\ req[r].job # 0

\* C6: a job that settled once is not settled again when it is delivered
\* again: no job has two Success rows.
C6_FinalizeOncePerJob ==
    \A i, j \in DOMAIN payouts :
        (i # j /\ payouts[i].status = "Success" /\ payouts[j].status = "Success")
            => JobOfSignature(payouts[i].signature)
                  # JobOfSignature(payouts[j].signature)

\* C7: a job that ended with an error has a Payouts row with status Failed
\* for its worker.
C7_FailedJobRecorded ==
    \A p \in Procs :
        (proc[p].pc = "returned" /\ proc[p].error # NoError) =>
            Cardinality({i \in DOMAIN payouts :
                            /\ payouts[i].status = "Failed"
                            /\ payouts[i].worker_id = proc[p].job.workerId}) = 1

\* C8: no step of a job that has no signature (it is being started, fails a
\* check, fails to recover the key or fails to submit) changes the worker
\* table or the Payouts table: the locked funds stay locked.
C8_FailedJobKeepsFunds ==
    [][\A p \in Procs :
         (proc'[p] # proc[p] /\ proc'[p].pc # "idle" /\ proc'[p].signature = 0)
            => worker' = worker /\ payouts' = payouts]_vars

\* C8 witness: a job failed on too few shares and its worker's funds are
\* still locked.
C8_Witness ==
    \E p \in Procs :
        /\ proc[p].pc = "returned"
        /\ proc[p].error = MinimumThreshold
        /\ worker[proc[p].job.workerId].locked_amount >= MIN_PENDING

\* C9: a job whose share fetch collected fewer than THRESHOLD shares ended
\* with the minimum-threshold error and submitted no transfer.
C9_TooFewSharesAborts ==
    \A p \in Procs :
        (proc[p].fetches > 0 /\ proc[p].nshares < THRESHOLD) =>
            /\ proc[p].pc = "returned"
            /\ proc[p].error = MinimumThreshold
            /\ proc[p].sends = 0
            /\ proc[p].signature = 0

\* C9 witness: a fetch returned THRESHOLD - 1 shares and the job ended.
C9_Witness ==
    \E p \in Procs :
        /\ proc[p].fetches = 1
        /\ proc[p].nshares = THRESHOLD - 1
        /\ proc[p].pc = "returned"

\* C10: recoverPrivateKey on exactly THRESHOLD distinct shares that
\* createShares made from a well-formed private key succeeds and returns
\* the keypair of that key, whichever shares are given and in whichever
\* order.
C10_AnyThresholdSharesRecover ==
    (/\ sss.phase = "recovered"
     /\ Len(sss.sharesArray) = THRESHOLD
     /\ ValidPrivateKey(sss.privateKey))
        => /\ sss.out.ok
           /\ sss.out.keypair = Base58Decode(sss.privateKey)

\* C10 witness: the key came back from THRESHOLD shares handed in out of
\* order, the last share among them.
C10_Witness ==
    /\ sss.phase = "recovered"
    /\ Len(sss.sharesArray) = THRESHOLD
    /\ ValidPrivateKey(sss.privateKey)
    /\ sss.sharesArray[1][1] = SHARES
    /\ sss.sharesArray[2][1] < sss.sharesArray[3][1]
    /\ sss.out.ok

\* the runs of process_Queue that hold a signature whose outcome is not
\* yet written
Finalizing(sig) == \E p \in Procs : proc[p].pc = "finalize" /\ proc[p].signature = sig
Recorded(sig) == \E i \in DOMAIN payouts : payouts[i].signature = sig

\* C11: a transfer that the network accepted is never left without a record
\* of its outcome: while no run is about to write it, the Payouts table has
\* a row with its signature.
C11_SubmittedThenFinalized ==
    \A sig \in DOMAIN chain : Finalizing(sig) \/ Recorded(sig)

\* the runs of process_Queue that have read the worker's row and have not
\* yet returned
InFlight(w) ==
    {p \in Procs : proc[p].pc \in {"try", "send", "finalize"}
                   /\ proc[p].job.workerId = w}

\* C12: no two jobs of one worker are between the read of locked_amount and
\* the end of the finalize at the same time.
C12_OneJobPerWorker ==
    \A w \in Workers : Cardinality(InFlight(w)) <= 1

\* sum of amount over the worker's Payouts rows with status Success
RECURSIVE SumSuccess(_, _)
SumSuccess(w, rows) ==
    IF rows = <<>> THEN 0
    ELSE (IF Head(rows).worker_id = w /\ Head(rows).status = "Success"
          THEN Head(rows).amount ELSE 0) + SumSuccess(w, Tail(rows))

\* C13: for every worker, the credits ever added to pending_amount minus
\* the amounts of its Success rows equal pending_amount + locked_amount.
C13_Conservation ==
    \A w \in Workers :
        submissions.amount[w] - SumSuccess(w, payouts)
            = worker[w].pending_amount + worker[w].locked_amount

\* C13 witness: a worker credited twice has been paid one lock and still
\* holds the other credit.
C13_Witness ==
    \E w \in Workers :
        /\ submissions.count = MaxCredits
        /\ SumSuccess(w, payouts) >= MIN_PENDING
        /\ worker[w].pending_amount + worker[w].locked_amount >= MIN_PENDING

\* C14: a balance read answers with the pending_amount of the row it read
\* as the pending value and with that row's locked_amount as the locked
\* value.
C14_BalanceReturnsRow ==
    \A r \in Reqs :
        (req[r].pc = "balance" /\ req[r].workerId \in Workers) =>
            /\ req[r].body.pendingAmount = req[r].worker.pending_amount
            /\ req[r].body.lockedAmount = req[r].worker.locked_amount

\* C15: the decrement of locked_amount and the Success row are written by
\* one step of a run that holds a signature, or not at all; the row's amount
\* is the amount taken from locked_amount, and its signature is the one the
\* network returned for this run's transfer to this worker.
C15_FinalizeAtomic ==
    [][/\ payouts' # payouts =>
            \E p \in Procs :
                LET w == proc[p].job.workerId
                    row == payouts'[Len(payouts')]
                IN  /\ proc[p].pc = "finalize"
                    /\ proc'[p].pc = "returned"
                    /\ payouts' = Append(payouts, row)
                    /\ row.status = "Success"
                    /\ row.worker_id = w
                    /\ row.amount = worker[w].locked_amount - worker'[w].locked_amount
                    /\ row.signature = proc[p].signature
                    /\ row.signature \in DOMAIN chain
                    /\ chain[row.signature].job = proc[p].job.id
                    /\ chain[row.signature].to = w
                    /\ chain[row.signature].lamports = Lamports(row.amount)
       /\ \A w \in Workers :
            worker'[w].locked_amount < worker[w].locked_amount =>
                /\ Len(payouts') = Len(payouts) + 1
                /\ payouts'[Len(payouts')].worker_id = w]_vars

\* C15 witness: a run wrote a Success row for the 3000 it took from
\* locked_amount, with the signature of its transfer.
C15_Witness ==
    \E i \in DOMAIN payouts : \E p \in Procs :
        /\ payouts[i].status = "Success"
        /\ payouts[i].amount = 3000
        /\ proc[p].pc = "returned"
        /\ proc[p].signature = payouts[i].signature
        /\ chain[payouts[i].signature].lamports = Lamports(3000)
        /\ worker[payouts[i].worker_id].locked_amount = 0

Answered == {e \in 1..SHARES : sss.responses[e].ok /\ sss.responses[e].share # <<>>}

\* C17: fetchShares returns one fragment for each endpoint that answered
\* with a share and nothing else, whichever endpoints failed or sent no
\* share and in whichever order the answers came.
C17_FetchReturnsAnswered ==
    sss.phase = "fetched" =>
        /\ Len(sss.sharesArray) = Cardinality(Answered)
        /\ \A e \in Answered :
             Cardinality({i \in DOMAIN sss.sharesArray :
                 sss.sharesArray[i] = ParseShare(EndpointShare[e])}) = 1
        /\ \A i \in DOMAIN sss.sharesArray :
             \E e \in Answered : sss.sharesArray[i] = ParseShare(EndpointShare[e])

\* C17 witness: of the 5 endpoints 2 were unreachable, the 3 fragments of
\* the others came back out of order and the key is rebuilt from them.
C17_Witness ==
    /\ sss.phase = "fetched"
    /\ Cardinality({e \in 1..SHARES : ~sss.responses[e].ok}) = 2
    /\ Len(sss.sharesArray) = 3
    /\ sss.sharesArray[1][1] > sss.sharesArray[2][1]
    /\ recoverPrivateKey(sss.sharesArray).ok

\* C18: no run of process_Queue ends with an error that left the handler:
\* its promise never rejects.
C18_NoErrorEscapes ==
    \A p \in Procs : proc[p].pc # "rejected"

\* the handler of the process has ended and the queue has not been told:
\* its job is still active and the process takes no other job
Ended(p) == proc[p].pc \in {"returned", "rejected"}

\* C19: a process whose run has ended has signalled the job's completion
\* and is free for the next job, and no job is handed out a second time.
C19_DoneSignalled ==
    \A p \in Procs : ~Ended(p) /\ proc[p].job.stalls = 0

\* lamports sent to the worker on the network
RECURSIVE SumChain(_, _)
SumChain(w, txs) ==
    IF txs = <<>> THEN 0
    ELSE (IF Head(txs).to = w THEN Head(txs).lamports ELSE 0)
             + SumChain(w, Tail(txs))

\* C20: the lamports sent to a worker never exceed the lamports of what
\* the worker was credited.
C20_NoDoublePayment ==
    \A w \in Workers : SumChain(w, chain) <= Lamports(submissions.amount[w])

BalanceSum(row) == row.pending_amount + row.locked_amount

\* C21: a credit adds its amount to pending_amount whatever lock or job
\* is in flight for the worker, a lock that commits leaves
\* pending_amount + locked_amount as it was, and a finalize leaves
\* pending_amount as it was: no credit is lost or counted twice.
C21_CreditNotLost ==
    [][\A w \in Workers :
         LET c == submissions'.amount[w] - submissions.amount[w]
         IN  /\ c # 0
                  => /\ worker'[w].pending_amount = worker[w].pending_amount + c
                     /\ worker'[w].locked_amount = worker[w].locked_amount
             /\ (\E r \in Reqs : /\ req[r].workerId = w
                                 /\ req[r].pc = "read"
                                 /\ req'[r].pc = "locked")
                  => /\ c = 0
                     /\ BalanceSum(worker'[w]) = BalanceSum(worker[w])
             /\ (\E p \in Procs : /\ proc[p].pc = "finalize"
                                  /\ proc[p].job.workerId = w
                                  /\ proc'[p].pc = "returned")
                  => /\ c = 0
                     /\ worker'[w].pending_amount = worker[w].pending_amount
             /\ c = 0 => BalanceSum(worker'[w]) <= BalanceSum(worker[w])]_vars

\* C21 witness: a credit of 1000 landed while the request that had locked
\* 3000 was still in flight; the worker holds both.
C21_Witness ==
    \E w \in Workers : \E r \in Reqs :
        /\ req[r].pc = "locked"
        /\ req[r].workerId = w
        /\ req[r].moved = 3000
        /\ worker[w].pending_amount = 1000
        /\ worker[w].locked_amount = 3000
        /\ submissions.amount[w] = 4000

\* C22: no transfer of 0 lamports is submitted and no Success row has
\* amount 0.
C22_NoZeroPayout ==
    /\ \A sig \in DOMAIN chain : chain[sig].lamports # 0
    /\ \A i \in DOMAIN payouts :
         payouts[i].status = "Success" => payouts[i].amount # 0

====
